---- MODULE Spec2Model ----
(***************************************************************************)
(* A model of github_stats.py: the request gateway (class Queries) and the *)
(* statistics engine (class Stats).                                        *)
(*                                                                         *)
(* The specifications share the variables:                                 *)
(*   SpecRest        one Queries.query_rest call, request by request;      *)
(*   SpecGate        several callers of query and query_rest on one        *)
(*                   gateway, request by request;                          *)
(*   Spec            one task calling the accessors of one Stats object;   *)
(*   SpecCollect     one task calling the accessors get_stats serves;      *)
(*   SpecConc        two cooperative tasks calling them concurrently;      *)
(*   SpecPaging      SpecCollect for lists of more pages, and              *)
(*   SpecPagingLive  the same under transport success, with fairness.      *)
(* In the Stats specifications a gateway call is one suspension point      *)
(* whose result is any of the results the gateway can produce.             *)
(***************************************************************************)
EXTENDS Integers, Sequences, FiniteSets, TLC

VARIABLES
    gw,      \* gateway: one record per query_rest call in progress
    sem,     \* Queries.semaphore: free permits
    cfg,     \* Stats constructor arguments and the remote account's list lengths
    obj,     \* the Stats object's fields (self._name, self._stargazers, ...)
    tasks,   \* one record per cooperative task: position and locals
    disk,    \* contents of CACHE_FILE
    clock,   \* datetime.utcnow()
    hist     \* observations about the run (history variables)

vars == <<gw, sem, cfg, obj, tasks, disk, clock, hist>>

\* The value None (also JSON null).
None == "None"

(***************************************************************************)
(* Queries.query_rest                                                      *)
(***************************************************************************)

\* range(60): the number of rounds of the retry loop.
RetryRounds == 60

\* asyncio.Semaphore(max_connections), default 10.
MaxConnections == 10

\* return dict()
EmptyDict == "{}"

\* The decoded body of a response that was not 202.
JsonBody == "json"

\* MoreRounds with the loop running one round too many.
MoreRoundsOff(i) == i <= RetryRounds

\* Whether the for loop has another round after `i` rounds were started.
MoreRounds(i) == i < RetryRounds

GwIdle ==
    [pc |-> "idle", i |-> 0, nprim |-> 0, nsec |-> 0, nsleep |-> 0,
     all202 |-> TRUE, result |-> None, q |-> 0, sent |-> <<>>]

\* The end of one round of the loop: the next round, or the loop exhausted
\* ("There were too many 202s") and dict() returned.
EndRound(c) ==
    IF MoreRounds(c.i)
    THEN [c EXCEPT !.pc = "loop"]
    ELSE [c EXCEPT !.pc = "returned", !.result = EmptyDict]

\* The call is made: path and headers are set, the first round begins.
RestCall(k) ==
    /\ gw[k].pc = "idle"
    /\ gw' = [gw EXCEPT ![k] = EndRound(gw[k])]
    /\ UNCHANGED <<sem, cfg, obj, tasks, disk, clock, hist>>

\* A round: `async with self.semaphore` is entered and session.get is sent.
RestSend(k) ==
    /\ gw[k].pc = "loop"
    /\ sem > 0
    /\ sem' = sem - 1
    /\ gw' = [gw EXCEPT ![k] = [@ EXCEPT !.pc = "primary", !.i = @ + 1,
                                        !.nprim = @ + 1]]
    /\ UNCHANGED <<cfg, obj, tasks, disk, clock, hist>>

\* session.get completes: with status 202, with another status, or by raising.
\* Leaving the `async with` releases the permit in every case.
PrimaryOutcomes == {"202", "status", "exc"}

\* On202Primary without the sleep: the next round at once.
NoSleepAfter202(c) == EndRound(c)

\* status 202 on the primary transport: asyncio.sleep(2), then `continue`.
On202Primary(c) == [c EXCEPT !.pc = "sleep1", !.nsleep = @ + 1]

RestPrimaryDone(k) ==
    /\ gw[k].pc = "primary"
    /\ sem' = sem + 1
    /\ \E o \in PrimaryOutcomes :
          gw' = [gw EXCEPT ![k] =
                    CASE o = "202"    -> On202Primary(@)
                      [] o = "status" -> [@ EXCEPT !.pc = "body", !.all202 = FALSE]
                      [] o = "exc"    -> [@ EXCEPT !.pc = "fallback", !.all202 = FALSE]]
    /\ UNCHANGED <<cfg, obj, tasks, disk, clock, hist>>

\* `await r.json()`: a body, null, or an exception (not JSON, connection lost).
BodyOutcomes == {"json", "null", "exc"}

RestBody(k) ==
    /\ gw[k].pc = "body"
    /\ \E o \in BodyOutcomes :
          gw' = [gw EXCEPT ![k] =
                    CASE o = "json" -> [@ EXCEPT !.pc = "returned", !.result = JsonBody]
                      [] o = "null" -> EndRound(@)
                      [] o = "exc"  -> [@ EXCEPT !.pc = "fallback"]]
    /\ UNCHANGED <<sem, cfg, obj, tasks, disk, clock, hist>>

\* The except branch: requests.get, synchronous, under the semaphore.
\*   exc      requests.get or r.json() raises: the exception leaves query_rest
\*   202      sleep (still holding the permit), then the next round
\*   200      return r.json(), which may be null
\*   status   any other status: the round ends without a result
FallbackOutcomes == {"202", "200", "200null", "status", "exc"}

RestFallback(k) ==
    /\ gw[k].pc = "fallback"
    /\ sem > 0
    /\ \E o \in FallbackOutcomes :
          /\ gw' = [gw EXCEPT ![k] =
                CASE o = "202"     -> [@ EXCEPT !.pc = "sleep2", !.nsec = @ + 1,
                                                 !.nsleep = @ + 1]
                  [] o = "200"     -> [@ EXCEPT !.pc = "returned", !.nsec = @ + 1,
                                                 !.result = JsonBody]
                  [] o = "200null" -> [@ EXCEPT !.pc = "returned", !.nsec = @ + 1,
                                                 !.result = None]
                  [] o = "status"  -> EndRound([@ EXCEPT !.nsec = @ + 1])
                  [] o = "exc"     -> [@ EXCEPT !.pc = "raised", !.nsec = @ + 1]]
          /\ sem' = IF o = "202" THEN sem - 1 ELSE sem
    /\ UNCHANGED <<cfg, obj, tasks, disk, clock, hist>>

\* asyncio.sleep(2) is over: `continue`.
RestWake(k) ==
    /\ gw[k].pc \in {"sleep1", "sleep2"}
    /\ sem' = IF gw[k].pc = "sleep2" THEN sem + 1 ELSE sem
    /\ gw' = [gw EXCEPT ![k] = EndRound(@)]
    /\ UNCHANGED <<cfg, obj, tasks, disk, clock, hist>>

(***************************************************************************)
(* Queries.query                                                           *)
(*                                                                         *)
(* gw[k].q is the generated_query of the call, gw[k].sent the requests it  *)
(* has issued, each as <<transport, payload>>.                             *)
(***************************************************************************)

\* The generated queries a caller may pass.
Payloads == {1, 2}

\* The call is made with a query; `async with self.semaphore` is reached.
QueryCall(k) ==
    /\ gw[k].pc = "idle"
    /\ \E q \in Payloads : gw' = [gw EXCEPT ![k] = [@ EXCEPT !.pc = "qwait", !.q = q]]
    /\ UNCHANGED <<sem, cfg, obj, tasks, disk, clock, hist>>

\* QuerySend entering without a free permit.
QuerySendNoGate(k) ==
    /\ gw[k].pc = "qwait"
    /\ sem' = sem - 1
    /\ gw' = [gw EXCEPT ![k] = [@ EXCEPT !.pc = "qprimary", !.nprim = @ + 1,
                                        !.sent = Append(@, <<"aiohttp", gw[k].q>>)]]
    /\ UNCHANGED <<cfg, obj, tasks, disk, clock, hist>>

\* Lines 29-32: the permit is taken and session.post is sent.
QuerySend(k) ==
    /\ gw[k].pc = "qwait"
    /\ sem > 0
    /\ sem' = sem - 1
    /\ gw' = [gw EXCEPT ![k] = [@ EXCEPT !.pc = "qprimary", !.nprim = @ + 1,
                                        !.sent = Append(@, <<"aiohttp", gw[k].q>>)]]
    /\ UNCHANGED <<cfg, obj, tasks, disk, clock, hist>>

\* session.post completes, with a response or by raising; the permit is
\* released on the way out of the `async with`.
QueryPrimaryOutcomes == {"response", "exc"}

QueryPrimaryDone(k) ==
    /\ gw[k].pc = "qprimary"
    /\ sem' = sem + 1
    /\ \E o \in QueryPrimaryOutcomes :
          gw' = [gw EXCEPT ![k] =
                    [@ EXCEPT !.pc = IF o = "response" THEN "qbody" ELSE "qfallback"]]
    /\ UNCHANGED <<cfg, obj, tasks, disk, clock, hist>>

\* Line 33: return await r.json(), which gives a document, null, or raises.
QueryBody(k) ==
    /\ gw[k].pc = "qbody"
    /\ \E o \in BodyOutcomes :
          gw' = [gw EXCEPT ![k] =
                    CASE o = "json" -> [@ EXCEPT !.pc = "returned", !.result = JsonBody]
                      [] o = "null" -> [@ EXCEPT !.pc = "returned", !.result = None]
                      [] o = "exc"  -> [@ EXCEPT !.pc = "qfallback"]]
    /\ UNCHANGED <<sem, cfg, obj, tasks, disk, clock, hist>>

\* QueryFallback trying the primary transport again instead.
QueryFallbackRetries(k) ==
    /\ gw[k].pc = "qfallback"
    /\ gw' = [gw EXCEPT ![k] = [@ EXCEPT !.pc = "qwait"]]
    /\ UNCHANGED <<sem, cfg, obj, tasks, disk, clock, hist>>

\* requests.post and r.json(): a document, null, or an exception that leaves
\* query.
QueryFallbackOutcomes == {"json", "null", "exc"}

\* Lines 34-40: the except branch.  requests.post is synchronous: the permit
\* is taken, the request made and answered, and the permit released without
\* any other coroutine running in between.
QueryFallback(k) ==
    /\ gw[k].pc = "qfallback"
    /\ sem > 0
    /\ \E o \in QueryFallbackOutcomes :
          gw' = [gw EXCEPT ![k] =
                    [@ EXCEPT !.pc = IF o = "exc" THEN "raised" ELSE "returned",
                              !.result = IF o = "json" THEN JsonBody ELSE None,
                              !.nsec = @ + 1,
                              !.sent = Append(@, <<"requests", gw[k].q>>)]]
    /\ UNCHANGED <<sem, cfg, obj, tasks, disk, clock, hist>>

(***************************************************************************)
(* Data: repositories, languages, the remote account, the cache file       *)
(***************************************************************************)

\* dict(): a mapping with no key.
EmptyMap == [x \in {} |-> 0]

Put(f, k, v) == [x \in DOMAIN f \cup {k} |-> IF x = k THEN v ELSE f[x]]

RECURSIVE SumOver(_, _)
\* sum of f[x] over the x in S
SumOver(f, S) ==
    IF S = {} THEN 0
    ELSE LET x == CHOOSE y \in S : TRUE IN f[x] + SumOver(f, S \ {x})

Range(s) == {s[i] : i \in DOMAIN s}

\* GITHUB_ACTOR: the login lines_changed looks for.
Username == "me"

\* Repository identities (nameWithOwner) that the remote lists, and one ("z")
\* that only an old cache file knows.
Repos == {"a", "b", "c"}

Langs == {"Py", "C"}

\* The nodes a page may carry: nameWithOwner, stargazers.totalCount, forkCount,
\* languages.edges as <<name, size>>.  Nodes 1 and 2 are the same repository
\* seen with different figures; node 3 has one language of size 0.
Nodes == <<
    [name |-> "a", stars |-> 1, forks |-> 1, edges |-> << <<"Py", 2>>, <<"C", 2>> >>],
    [name |-> "a", stars |-> 2, forks |-> 0, edges |-> << <<"Py", 1>> >>],
    [name |-> "b", stars |-> 1, forks |-> 0, edges |-> << <<"C", 0>> >>],
    [name |-> "c", stars |-> 0, forks |-> 2, edges |-> << <<"Py", 15>>, <<"C", 7>> >>] >>

NodeIds == DOMAIN Nodes

\* Bounds of the model.
MaxNodes == 1      \* nodes on one page of one list
MaxPages == 2      \* pages of one list
MaxCalls == 2      \* accessor calls one task makes

\* The sequences over S of length lo..hi.
SeqsOf(S, lo, hi) == UNION {[1..n -> S] : n \in lo..hi}

(***************************************************************************)
(* The remote graph endpoint, as Queries.repos_overview queries it: a list *)
(* of n pages queried `after` cursor k (0 is null) answers with page k+1,  *)
(* hasNextPage and endCursor; past the last page it answers with no node,  *)
(* hasNextPage false and a null endCursor.  Cursors are page numbers.      *)
(***************************************************************************)
ListAnswers(n, k) ==
    IF k + 1 <= n
    THEN {[nodes |-> ns, hasNextPage |-> (k + 1 < n), endCursor |-> k + 1] :
             ns \in SeqsOf(NodeIds, 1, MaxNodes)}
    ELSE {[nodes |-> <<>>, hasNextPage |-> FALSE, endCursor |-> 0]}

\* A document without "data" (an API error, or null): no list, no pageInfo.
NoList == [nodes |-> <<>>, hasNextPage |-> FALSE, endCursor |-> 0]

GraphAnswers(nextOwned, nextContrib) ==
    {[name |-> "Nm", owned |-> o, contrib |-> c] :
        o \in ListAnswers(cfg.nOwned, nextOwned),
        c \in ListAnswers(cfg.nContrib, nextContrib)}
    \cup {[name |-> "No Name", owned |-> NoList, contrib |-> NoList]}

(***************************************************************************)
(* Stats: the fields and Stats.get_stats                                   *)
(*                                                                         *)
(* A field that is None is a field whose name is not in obj.set.           *)
(***************************************************************************)
ObjInit ==
    [set |-> {}, name |-> "", stargazers |-> 0, forks |-> 0,
     total_contributions |-> 0, languages |-> EmptyMap, repos |-> {},
     lines_changed |-> <<0, 0>>, views |-> 0, ignored_repos |-> {},
     repo_language_data |-> EmptyMap]

IsNone(o, f) == f \notin o.set

\* get_stats, lines 206-211: the aggregates are reset.
ResetStats(o) ==
    [o EXCEPT !.set = @ \cup {"stargazers", "forks", "languages", "repos",
                              "ignored_repos"},
              !.stargazers = 0, !.forks = 0, !.languages = EmptyMap,
              !.repos = {}, !.ignored_repos = {},
              !.repo_language_data = EmptyMap]

\* The language edges that exclude_langs lets through.
KeptEdges(edges) == SelectSeq(edges, LAMBDA e : e[1] \notin cfg.exLangs)

RECURSIVE SumSizes(_)
SumSizes(edges) ==
    IF edges = <<>> THEN 0 ELSE Head(edges)[2] + SumSizes(Tail(edges))

\* repo_langs and total_size -> {lang: size / total_size}; a share is kept as
\* the pair <<size, total_size>>.
Shares(edges) ==
    LET kept == KeptEdges(edges)
        total == SumSizes(kept)
    IN  [l \in {e[1] : e \in Range(kept)} |->
            LET i == CHOOSE j \in DOMAIN kept :
                        /\ kept[j][1] = l
                        /\ \A h \in DOMAIN kept : kept[h][1] = l => h <= j
            IN  <<kept[i][2], total>>]

\* One language edge enters self._languages ("prop" is not yet a key: <<>>).
AddLang(L, e) ==
    IF e[1] \in DOMAIN L
    THEN [L EXCEPT ![e[1]] = [@ EXCEPT !.size = @ + e[2],
                                       !.occurrences = @ + 1]]
    ELSE Put(L, e[1], [size |-> e[2], occurrences |-> 1, prop |-> <<>>])

RECURSIVE AddLangs(_, _)
AddLangs(L, edges) ==
    IF edges = <<>> THEN L ELSE AddLangs(AddLang(L, Head(edges)), Tail(edges))

\* Lines 242-271: a repository is admitted.
AdmitRepo(o, nd) ==
    LET node == Nodes[nd]
        kept == KeptEdges(node.edges)
    IN  [o EXCEPT !.repos = @ \cup {node.name},
                  !.stargazers = @ + node.stars,
                  !.forks = @ + node.forks,
                  !.repo_language_data =
                        IF SumSizes(kept) > 0
                        THEN Put(@, node.name, Shares(node.edges))
                        ELSE @,
                  !.languages = AddLangs(@, kept)]

\* SkipsRepo without the test of self._repos.
SkipsRepoNoDedup(o, name) == name \in cfg.exRepos

\* SkipsRepo without the test of self._exclude_repos.
SkipsRepoNoExclude(o, name) == name \in o.repos

\* Line 240: if name in self._repos or name in self._exclude_repos: continue
SkipsRepo(o, name) == name \in o.repos \/ name \in cfg.exRepos

RECURSIVE CollectRepos(_, _)
\* Lines 238-271: for repo in repos
CollectRepos(o, ids) ==
    IF ids = <<>> THEN o
    ELSE LET nd == Head(ids) IN
         CollectRepos(IF SkipsRepo(o, Nodes[nd].name) THEN o ELSE AdmitRepo(o, nd),
                      Tail(ids))

\* Line 234: if name in self._ignored_repos or name in self._exclude_repos
SkipsContrib(o, name) == name \in o.ignored_repos \/ name \in cfg.exRepos

RECURSIVE CollectContrib(_, _)
\* Lines 232-236: contributed-to nodes when forks are not considered
CollectContrib(o, ids) ==
    IF ids = <<>> THEN o
    ELSE LET name == Nodes[Head(ids)].name IN
         CollectContrib(IF SkipsContrib(o, name) THEN o
                        ELSE [o EXCEPT !.ignored_repos = @ \cup {name}],
                        Tail(ids))

\* The nodes line 238 iterates over: owned, then contributed-to if
\* consider_forked_repos.
Candidates(ans) ==
    ans.owned.nodes \o (IF cfg.forked THEN ans.contrib.nodes ELSE <<>>)

\* Lines 219-271: one answer is merged into the aggregates.
MergePage(o, ans) ==
    LET o1 == [o EXCEPT !.name = ans.name, !.set = @ \cup {"name"}]
        o2 == IF cfg.forked THEN o1 ELSE CollectContrib(o1, ans.contrib.nodes)
    IN  CollectRepos(o2, Candidates(ans))

\* MorePages looking at the owned list only.
MorePagesOwnedOnly(ans) == ans.owned.hasNextPage

\* Lines 273-274: another query is issued if either list has a next page.
MorePages(ans) == ans.owned.hasNextPage \/ ans.contrib.hasNextPage

\* Line 280: langs_total
LangsTotal(o) == SumOver([l \in DOMAIN o.languages |-> o.languages[l].size],
                         DOMAIN o.languages)

\* Line 282 divides by langs_total for every language of the aggregate: with
\* at least one language and a total of zero it raises ZeroDivisionError.
DividesByZero(o) == DOMAIN o.languages # {} /\ LangsTotal(o) = 0

\* Lines 281-282: v["prop"] = 100 * (size / langs_total), kept as the pair
\* <<100 * size, langs_total>>.
WithProps(o) ==
    LET L == o.languages IN
    [o EXCEPT !.languages =
        [l \in DOMAIN L |-> [L[l] EXCEPT !.prop = <<100 * L[l].size, LangsTotal(o)>>]]]

(***************************************************************************)
(* Tasks.  Between two awaits a task runs alone, so each action below is   *)
(* everything a task does from one suspension point to the next.  The      *)
(* operators work on a "machine": the shared state plus the task's record. *)
(***************************************************************************)
Accessors ==
    {"name", "stargazers", "forks", "languages", "languages_proportional",
     "repos", "all_repos", "total_contributions", "lines_changed", "views"}

TaskIdle ==
    [pc |-> "idle", acc |-> "", calls |-> 0, ret |-> <<>>, retBusy |-> FALSE,
     err |-> "", nextOwned |-> 0, nextContrib |-> 0,
     additions |-> 0, deletions |-> 0, cache |-> EmptyMap, updated |-> EmptyMap,
     todo |-> <<>>, total |-> 0, ord |-> <<>>, years |-> <<>>]

HistInit ==
    [gsRuns |-> 0, firstSeen |-> [r \in Repos |-> 0],
     seenOwned |-> {}, seenContrib |-> {}, dups |-> {},
     restLog |-> {}, loaded |-> EmptyMap,
     fetched |-> [r \in Repos |-> 0], credit |-> [r \in Repos |-> <<0, 0>>],
     lcRepos |-> {}, lcDone |-> FALSE, saves |-> 0,
     paging |-> "none", answered |-> FALSE, asked |-> <<{}, {}>>,
     again |-> FALSE, lastEnd |-> <<0, 0>>, lastMore |-> <<FALSE, FALSE>>]

\* Whether some task other than t is inside get_stats.
OtherInStats(t) == \E u \in DOMAIN tasks \ {t} : tasks[u].pc = "gs"

Machine(t) ==
    [obj |-> obj, tk |-> tasks[t], disk |-> disk, clock |-> clock, hist |-> hist,
     busy |-> OtherInStats(t)]

Commit(t, m) ==
    /\ obj' = m.obj
    /\ tasks' = [tasks EXCEPT ![t] = m.tk]
    /\ disk' = m.disk
    /\ clock' = m.clock
    /\ hist' = m.hist
    /\ UNCHANGED <<gw, sem, cfg>>

\* The accessor returns v to the task.
Return(m, v) ==
    [m EXCEPT !.tk = [TaskIdle EXCEPT !.calls = m.tk.calls, !.acc = m.tk.acc,
                                      !.ret = <<v>>, !.retBusy = m.busy]]

\* An exception leaves the accessor.
Raise(m, e) ==
    [m EXCEPT !.tk = [TaskIdle EXCEPT !.pc = "failed", !.calls = m.tk.calls,
                                      !.acc = m.tk.acc, !.err = e]]

\* The accessors' guards: `if self._x is not None: return self._x`.
Memoized(o, a) ==
    CASE a = "languages_proportional" -> ~IsNone(o, "languages")
      [] a = "all_repos" -> ~IsNone(o, "repos") /\ ~IsNone(o, "ignored_repos")
      [] OTHER -> ~IsNone(o, a)

\* {k: v.get("prop", 0)}: a language without "prop" reports 0.
Proportional(o) ==
    [l \in DOMAIN o.languages |->
        IF o.languages[l].prop = <<>> THEN <<0, 1>> ELSE o.languages[l].prop]

AllRepos(o) == o.repos \cup o.ignored_repos

\* What the accessor returns.
Value(o, a) ==
    CASE a = "name" -> o.name
      [] a = "stargazers" -> o.stargazers
      [] a = "forks" -> o.forks
      [] a = "languages" -> o.languages
      [] a = "languages_proportional" -> Proportional(o)
      [] a = "repos" -> o.repos
      [] a = "all_repos" -> AllRepos(o)
      [] a = "lines_changed" -> o.lines_changed
      [] a = "views" -> o.views
      [] a = "total_contributions" -> o.total_contributions

\* get_stats begins (lines 206-218): reset, null cursors, first query sent.
BeginStats(m) ==
    [m EXCEPT !.obj = ResetStats(@),
              !.tk = [@ EXCEPT !.pc = "gs", !.nextOwned = 0, !.nextContrib = 0],
              !.hist = [@ EXCEPT !.gsRuns = @ + 1,
                                 !.firstSeen = [r \in Repos |-> 0],
                                 !.seenOwned = {}, !.seenContrib = {},
                                 !.dups = {},
                                 !.paging = "asking", !.answered = FALSE,
                                 !.asked = <<{0}, {0}>>, !.again = FALSE,
                                 !.lastEnd = <<0, 0>>,
                                 !.lastMore = <<FALSE, FALSE>>]]

\* for x in a set: the set's members in the order this process iterates them.
Ordered(ord, S) == SelectSeq(ord, LAMBDA r : r \in S)

\* Lines 419-423: the cache file is rewritten, the totals memoized and returned.
FinishLines(m) ==
    LET lc == <<m.tk.additions, m.tk.deletions>> IN
    Return([m EXCEPT !.disk = m.tk.updated,
                     !.obj = [@ EXCEPT !.lines_changed = lc,
                                       !.set = @ \cup {"lines_changed"}],
                     !.hist = [@ EXCEPT !.saves = @ + 1, !.lcDone = TRUE]],
           lc)

\* NextLines writing the cache file at every round of the loop.
NextLinesSaving(m) ==
    IF m.tk.todo = <<>> THEN FinishLines(m)
    ELSE [m EXCEPT !.tk = [@ EXCEPT !.pc = "lc"],
                   !.disk = m.tk.updated,
                   !.hist = [@ EXCEPT !.restLog =
                                @ \cup {<<"contributors", Head(m.tk.todo)>>}]]

\* Line 368-369: the next repository's contributor statistics are requested,
\* or the loop is over.
NextLines(m) ==
    IF m.tk.todo = <<>> THEN FinishLines(m)
    ELSE [m EXCEPT !.tk = [@ EXCEPT !.pc = "lc"],
                   !.hist = [@ EXCEPT !.restLog =
                                @ \cup {<<"contributors", Head(m.tk.todo)>>}]]

\* Lines 434-435
FinishViews(m) ==
    Return([m EXCEPT !.obj = [@ EXCEPT !.views = m.tk.total,
                                       !.set = @ \cup {"views"}]],
           m.tk.total)

\* Lines 430-431
NextViews(m) ==
    IF m.tk.todo = <<>> THEN FinishViews(m)
    ELSE [m EXCEPT !.tk = [@ EXCEPT !.pc = "vw"],
                   !.hist = [@ EXCEPT !.restLog =
                                @ \cup {<<"views", Head(m.tk.todo)>>}]]

\* ViewedRepos iterating over all_repos as lines_changed does.
ViewedReposAll(o) == o.repos \cup o.ignored_repos

\* `for repo in await self.repos`: views iterates over the owned set.
ViewedRepos(o) == o.repos

\* `for repo in await self.all_repos`
LinesRepos(o) == AllRepos(o)

\* What follows `await self.get_stats()` in the accessor that called it.
AfterStats(m) ==
    CASE m.tk.acc = "lines_changed" ->
            NextLines([m EXCEPT !.tk = [@ EXCEPT !.todo =
                                          Ordered(m.tk.ord, LinesRepos(m.obj))],
                                !.hist = [@ EXCEPT !.lcRepos = LinesRepos(m.obj)]])
      [] m.tk.acc = "views" ->
            NextViews([m EXCEPT !.tk = [@ EXCEPT !.todo =
                                          Ordered(m.tk.ord, ViewedRepos(m.obj))]])
      [] OTHER -> Return(m, Value(m.obj, m.tk.acc))

\* History: the first node of each identity among the nodes seen so far.
FirstIn(ids, r) ==
    IF \E i \in DOMAIN ids : Nodes[ids[i]].name = r
    THEN ids[CHOOSE i \in DOMAIN ids :
                /\ Nodes[ids[i]].name = r
                /\ \A j \in DOMAIN ids : Nodes[ids[j]].name = r => i <= j]
    ELSE 0

NamesOf(ids) == {Nodes[ids[i]].name : i \in DOMAIN ids}

\* The identities that occur at more than one place of ids.
Repeated(ids) ==
    {Nodes[ids[i]].name : i \in {j \in DOMAIN ids :
        \E k \in DOMAIN ids : k # j /\ Nodes[ids[k]].name = Nodes[ids[j]].name}}

Observe(h, ans) ==
    [h EXCEPT !.firstSeen = [r \in Repos |->
                    IF @[r] # 0 THEN @[r] ELSE FirstIn(Candidates(ans), r)],
              !.dups = @ \cup Repeated(ans.owned.nodes \o ans.contrib.nodes)
                         \cup ((h.seenOwned \cup h.seenContrib)
                               \cap NamesOf(ans.owned.nodes \o ans.contrib.nodes)),
              !.seenOwned = @ \cup NamesOf(ans.owned.nodes),
              !.seenContrib = @ \cup NamesOf(ans.contrib.nodes),
              !.answered = TRUE,
              !.lastEnd = <<ans.owned.endCursor, ans.contrib.endCursor>>,
              !.lastMore = <<ans.owned.hasNextPage, ans.contrib.hasNextPage>>]

\* History: the next query is sent with the cursors of tk.  A cursor k of a
\* list of n pages asks for page k + 1 if k < n.
ObserveQuery(h, tk) ==
    [h EXCEPT !.asked = <<@[1] \cup {tk.nextOwned}, @[2] \cup {tk.nextContrib}>>,
              !.again = \/ @
                        \/ tk.nextOwned \in h.asked[1] /\ tk.nextOwned < cfg.nOwned
                        \/ tk.nextContrib \in h.asked[2] /\ tk.nextContrib < cfg.nContrib]

\* AdvanceCursors forgetting the cursor of the contributed-to list.
AdvanceCursorsOwnedOnly(tk, ans) == [tk EXCEPT !.nextOwned = ans.owned.endCursor]

\* Lines 275-276: .get("endCursor", next_owned); a null endCursor is None.
AdvanceCursors(tk, ans) ==
    [tk EXCEPT !.nextOwned = ans.owned.endCursor,
               !.nextContrib = ans.contrib.endCursor]

\* Lines 219-282 and what follows: an answer to the combined query arrives.
\* (CHOOSE r \in {F(x) : x \in {e}} : TRUE is F(e), with e evaluated once.)
StatsPage(m, ans) ==
    LET Merged(o) ==
            LET m1 == [m EXCEPT !.obj = o, !.hist = Observe(@, ans)]
                m2 == [m1 EXCEPT !.hist = [@ EXCEPT !.paging = "exited"]]
            IN  IF MorePages(ans)
                THEN [m1 EXCEPT !.tk = AdvanceCursors(@, ans),
                                !.hist = ObserveQuery(@, AdvanceCursors(m.tk, ans))]
                ELSE IF DividesByZero(o)
                     THEN Raise(m2, "ZeroDivisionError")
                     ELSE CHOOSE r \in {AfterStats(x) :
                                x \in {[m2 EXCEPT !.obj = WithProps(o)]}} : TRUE
    IN  CHOOSE r \in {Merged(x) : x \in {MergePage(m.obj, ans)}} : TRUE

(***************************************************************************)
(* Stats.lines_changed                                                     *)
(***************************************************************************)

\* Answers of /repos/{repo}/stats/contributors as query_rest returns them.
\* An element of the list: whether it is a dict, its author ("me", "other",
\* or "nodict" for an author that is no dict), its weeks as <<a, d>>.
ContribResults == <<
    [isList |-> FALSE, entries |-> <<>>],
    [isList |-> TRUE, entries |-> <<
        [dict |-> TRUE, author |-> "other", weeks |-> << <<7, 7>> >>] >>],
    [isList |-> TRUE, entries |-> <<
        [dict |-> TRUE, author |-> "other", weeks |-> << <<7, 7>> >>],
        [dict |-> TRUE, author |-> "me", weeks |-> << <<15, 1>>, <<6, 0>> >>],
        [dict |-> TRUE, author |-> "nodict", weeks |-> << <<9, 9>> >>],
        [dict |-> FALSE, author |-> "me", weeks |-> << <<4, 4>> >>],
        [dict |-> TRUE, author |-> "me", weeks |-> << <<1, 2>> >>] >>] >>

RECURSIVE SumWeeks(_, _)
\* Lines 381-383: the sum of week[k] over the weeks
SumWeeks(weeks, k) ==
    IF weeks = <<>> THEN 0 ELSE Head(weeks)[k] + SumWeeks(Tail(weeks), k)

\* CountsAuthor without the comparison of the login.
CountsAnyAuthor(e) == e.dict /\ e.author # "nodict"

\* Lines 376-380: the element is counted if it is a dict whose author is a dict
\* with the login self.username.
CountsAuthor(e) == e.dict /\ e.author # "nodict" /\ e.author = Username

RECURSIVE SumAuthor(_, _)
\* Lines 375-383: repo_additions (k = 1), repo_deletions (k = 2)
SumAuthor(entries, k) ==
    IF entries = <<>> THEN 0
    ELSE (IF CountsAuthor(Head(entries)) THEN SumWeeks(Head(entries).weeks, k) ELSE 0)
         + SumAuthor(Tail(entries), k)

\* Truncated rounding up instead of down.
RoundedUp(total, share) == (total * share[1] + share[2] - 1) \div share[2]

\* The <<total, size, total_size>> of this model for which the float product
\* total * (size / total_size) is below the integer that the exact quotient
\* is: 22 * (15 / 22) is 14.999999999999998.
FloatShort == {<<22, 15, 22>>}

\* int(total * prop) with prop = size / total_size, a float: the exact
\* quotient rounded down, and one less where the float product falls short.
Truncated(total, share) ==
    (total * share[1]) \div share[2]
        - (IF <<total, share[1], share[2]>> \in FloatShort THEN 1 ELSE 0)

\* Lines 389-400: lang_contribs
LangContribs(o, repo, a, d) ==
    IF repo \in DOMAIN o.repo_language_data
    THEN LET sh == o.repo_language_data[repo] IN
         [l \in DOMAIN sh |-> <<Truncated(a, sh[l]), Truncated(d, sh[l])>>]
    ELSE [l \in {"Unknown"} |-> <<a, d>>]

\* datetime.utcnow().isoformat() + "Z"
Stamp(now) == now

\* Lines 402-407
FreshEntry(o, repo, a, d, now) ==
    [additions |-> a, deletions |-> d, last_updated |-> Stamp(now),
     languages |-> LangContribs(o, repo, a, d)]

\* FallbackEntry losing the cached additions.
FallbackEntryZeroed(e) == [e EXCEPT !.additions = 0]

\* Line 411: cached_data = cache["repositories"][repo]
FallbackEntry(e) == e

\* Lines 370-417 and what follows: the answer for the repository at the head
\* of the loop arrives.
LinesResult(m, res) ==
    LET repo == Head(m.tk.todo)
        R == ContribResults[res]
        a == SumAuthor(R.entries, 1)
        d == SumAuthor(R.entries, 2)
        h == [m.hist EXCEPT !.fetched[repo] = res]
        rest == [m.tk EXCEPT !.todo = Tail(@)]
    IN  NextLines(
        IF R.isList
        THEN [m EXCEPT !.tk = [rest EXCEPT
                                  !.updated = Put(@, repo,
                                        FreshEntry(m.obj, repo, a, d, m.clock)),
                                  !.additions = @ + a, !.deletions = @ + d],
                       !.hist = [h EXCEPT !.credit[repo] = <<a, d>>]]
        ELSE IF repo \in DOMAIN m.tk.cache
        THEN LET e == FallbackEntry(m.tk.cache[repo]) IN
             [m EXCEPT !.tk = [rest EXCEPT !.updated = Put(@, repo, e),
                                           !.additions = @ + e.additions,
                                           !.deletions = @ + e.deletions],
                       !.hist = [h EXCEPT !.credit[repo] =
                                            <<e.additions, e.deletions>>]]
        ELSE [m EXCEPT !.tk = rest, !.hist = h])

\* BeginLines with updated_cache starting empty instead of as a copy.
BeginLinesNoCopy(m) ==
    BeginStats([m EXCEPT !.tk = [@ EXCEPT !.additions = 0, !.deletions = 0,
                                          !.cache = m.disk, !.updated = EmptyMap],
                         !.hist = [@ EXCEPT !.loaded = m.disk]])

\* Lines 361-366: totals zeroed, cache loaded and copied, get_stats awaited.
BeginLines(m) ==
    BeginStats([m EXCEPT !.tk = [@ EXCEPT !.additions = 0, !.deletions = 0,
                                          !.cache = m.disk, !.updated = m.disk],
                         !.hist = [@ EXCEPT !.loaded = m.disk]])

(***************************************************************************)
(* Stats.views                                                             *)
(***************************************************************************)

\* Answers of /repos/{repo}/traffic/views: a dict with "views" (the counts), a
\* dict without (dict() after too many 202s, an error document), or a value
\* that is no dict and has no .get (a list, null).
ViewResults == <<
    [isDict |-> TRUE, counts |-> <<3, 4>>],
    [isDict |-> TRUE, counts |-> <<>>],
    [isDict |-> FALSE, counts |-> <<>>] >>

RECURSIVE SumSeq(_)
SumSeq(s) == IF s = <<>> THEN 0 ELSE Head(s) + SumSeq(Tail(s))

\* Lines 432-433 and what follows
ViewsResult(m, res) ==
    LET R == ViewResults[res] IN
    IF ~R.isDict THEN Raise(m, "AttributeError")
    ELSE NextViews([m EXCEPT !.tk = [@ EXCEPT !.todo = Tail(@),
                                              !.total = @ + SumSeq(R.counts)]])

(***************************************************************************)
(* Stats.total_contributions                                               *)
(***************************************************************************)

\* Answers to Queries.contrib_years: a document with the years, a document
\* without "data", or one on which the .get chain raises (null, "data": null).
YearsAnswers == <<
    [ok |-> TRUE, years |-> <<2020, 2021>>],
    [ok |-> TRUE, years |-> <<>>],
    [ok |-> FALSE, years |-> <<>>] >>

\* Answers to Queries.all_contribs: every year's totalContributions, a document
\* without "data", or one on which the chain raises.
YearTotal(y) == IF y = 2020 THEN 3 ELSE 4

TotalsAnswers == {"totals", "nodata", "raises"}

\* Lines 344-345: the total is set to 0 and the years are queried.
BeginContributions(m) ==
    [m EXCEPT !.obj = [@ EXCEPT !.total_contributions = 0,
                                !.set = @ \cup {"total_contributions"}],
              !.tk = [@ EXCEPT !.pc = "tc1"]]

\* Lines 345-347: the years arrive and the per-year totals are queried.
YearsResult(m, res) ==
    IF ~YearsAnswers[res].ok THEN Raise(m, "AttributeError")
    ELSE [m EXCEPT !.tk = [@ EXCEPT !.pc = "tc2", !.years = YearsAnswers[res].years]]

RECURSIVE SumYears(_)
SumYears(ys) == IF ys = <<>> THEN 0 ELSE YearTotal(Head(ys)) + SumYears(Tail(ys))

\* Lines 347-351
TotalsResult(m, res) ==
    CASE res = "raises" -> Raise(m, "AttributeError")
      [] res = "nodata" -> Return(m, m.obj.total_contributions)
      [] res = "totals" ->
            LET n == m.obj.total_contributions + SumYears(m.tk.years) IN
            Return([m EXCEPT !.obj = [@ EXCEPT !.total_contributions = n]], n)

(***************************************************************************)
(* Actions                                                                 *)
(***************************************************************************)

\* The orders in which this process may iterate a set of repositories.
IterOrders == {<<"a", "b", "c">>, <<"c", "b", "a">>}

LoopAccessors == {"lines_changed", "views"}

\* An accessor runs from its call to its first suspension or its return.
Enter(m) ==
    IF Memoized(m.obj, m.tk.acc) THEN Return(m, Value(m.obj, m.tk.acc))
    ELSE CASE m.tk.acc = "lines_changed" -> BeginLines(m)
           [] m.tk.acc = "total_contributions" -> BeginContributions(m)
           [] m.tk.acc = "views" /\ ~IsNone(m.obj, "repos") -> AfterStats(m)
           [] OTHER -> BeginStats(m)

\* History: what was observed of the last call's requests is forgotten.
ForgetLines(h) ==
    [h EXCEPT !.loaded = EmptyMap, !.fetched = [r \in Repos |-> 0],
              !.credit = [r \in Repos |-> <<0, 0>>], !.lcRepos = {},
              !.lcDone = FALSE, !.restLog = {}]

\* A task awaits an accessor (to_str awaits them one after the other).  Time
\* has passed since the last call.
CallOf(t, A) ==
    /\ tasks[t].pc = "idle"
    /\ tasks[t].calls < MaxCalls
    /\ \E a \in A, ord \in IterOrders :
          /\ a \notin LoopAccessors => ord = CHOOSE s \in IterOrders : TRUE
          /\ Commit(t, Enter([Machine(t) EXCEPT
                !.tk = [@ EXCEPT !.acc = a, !.calls = @ + 1, !.ord = ord,
                                 !.ret = <<>>, !.retBusy = FALSE],
                !.clock = @ + 1,
                !.hist = ForgetLines(@)]))

Call(t) == CallOf(t, Accessors)

\* The accessors that only read the snapshot get_stats computes.
SnapshotAccessors ==
    {"name", "stargazers", "forks", "languages", "languages_proportional",
     "repos", "all_repos"}

CallSnapshot(t) == CallOf(t, SnapshotAccessors)

\* Queries.query returns the answer to repos_overview.
StatsAnswer(t) ==
    /\ tasks[t].pc = "gs"
    /\ \E ans \in GraphAnswers(tasks[t].nextOwned, tasks[t].nextContrib) :
          \E m \in {StatsPage(Machine(t), ans)} : Commit(t, m)

\* Queries.query or Queries.query_rest raises (both transports failed), or the
\* .get chain of get_stats does ("data": null).
GatewayRaises(t) ==
    /\ tasks[t].pc \in {"gs", "lc", "vw", "tc1", "tc2"}
    /\ Commit(t, Raise(Machine(t), "transport"))

ContributorsAnswer(t) ==
    /\ tasks[t].pc = "lc"
    /\ \E res \in DOMAIN ContribResults :
          Commit(t, LinesResult(Machine(t), res))

ViewsAnswer(t) ==
    /\ tasks[t].pc = "vw"
    /\ \E res \in DOMAIN ViewResults :
          Commit(t, ViewsResult(Machine(t), res))

YearsAnswer(t) ==
    /\ tasks[t].pc = "tc1"
    /\ \E res \in DOMAIN YearsAnswers :
          Commit(t, YearsResult(Machine(t), res))

TotalsAnswer(t) ==
    /\ tasks[t].pc = "tc2"
    /\ \E res \in TotalsAnswers :
          Commit(t, TotalsResult(Machine(t), res))

(***************************************************************************)
(* Specifications                                                          *)
(***************************************************************************)

\* A cache entry written by an earlier run.
OldEntry(a, d, langs) ==
    [additions |-> a, deletions |-> d, last_updated |-> 0, languages |-> langs]

\* CACHE_FILE before the run: absent (or unreadable), or left by an earlier run.
CacheFiles ==
    {[r \in {"a", "z"} |->
        CASE r = "a" -> OldEntry(10, 2, [l \in {"Py"} |-> <<10, 2>>])
          [] r = "z" -> OldEntry(1, 1, EmptyMap)]}

\* exclude_repos and exclude_langs as the constructor may get them.
Exclusions == {<<{}, {}>>, <<{"a"}, {"C"}>>}

Configs ==
    {[forked |-> f, exRepos |-> x[1], exLangs |-> x[2], nOwned |-> n, nContrib |-> k,
      maxConn |-> MaxConnections] :
        f \in BOOLEAN, x \in Exclusions, n \in 0..MaxPages, k \in 0..MaxPages}

InitStats(T, C) ==
    /\ gw = [k \in {1} |-> GwIdle]
    /\ cfg \in C
    /\ sem = cfg.maxConn
    /\ obj = ObjInit
    /\ tasks = [t \in T |-> TaskIdle]
    /\ disk \in CacheFiles
    /\ clock = 1
    /\ hist = HistInit

TaskStep(t) ==
    \/ Call(t)
    \/ StatsAnswer(t)
    \/ GatewayRaises(t)
    \/ ContributorsAnswer(t)
    \/ ViewsAnswer(t)
    \/ YearsAnswer(t)
    \/ TotalsAnswer(t)

Next == \E t \in DOMAIN tasks : TaskStep(t)

\* One task (main awaits to_str, or any sequence of accessors).
Init == InitStats({1}, Configs)

Spec == Init /\ [][Next]_vars

\* One task awaiting the accessors of the snapshot only.
CollectStep(t) ==
    \/ CallSnapshot(t)
    \/ StatsAnswer(t)
    \/ GatewayRaises(t)

NextCollect == \E t \in DOMAIN tasks : CollectStep(t)

SpecCollect == Init /\ [][NextCollect]_vars

\* Two tasks awaiting those accessors of the same object concurrently.
InitConc ==
    InitStats({1, 2}, {c \in Configs : ~c.forked /\ c.exRepos = {} /\ c.nContrib = 1})

SpecConc == InitConc /\ [][NextCollect]_vars

\* Pages of one list in the specifications of the paging loop.
MaxListPages == 3

\* One task awaiting a snapshot accessor of an account whose lists have any
\* number of pages.
InitPaging ==
    InitStats({1}, {[forked |-> f, exRepos |-> {}, exLangs |-> {}, nOwned |-> n,
                     nContrib |-> k, maxConn |-> MaxConnections] :
                        f \in BOOLEAN, n \in 0..MaxListPages, k \in 0..MaxListPages})

SpecPaging == InitPaging /\ [][NextCollect]_vars

\* The same under transport success: Queries.query always returns, and the
\* event loop resumes the coroutine that awaits it.
PagedAccessors == {"stargazers", "all_repos"}

CallPaged(t) == CallOf(t, PagedAccessors)

PagingStep(t) ==
    \/ CallPaged(t)
    \/ StatsAnswer(t)

NextPaging == \E t \in DOMAIN tasks : PagingStep(t)

SpecPagingLive ==
    InitPaging /\ [][NextPaging]_vars /\ \A t \in {1} : WF_vars(StatsAnswer(t))

\* One query_rest call, request by request.
InitRest ==
    /\ gw = [k \in {1} |-> GwIdle]
    /\ cfg = [forked |-> FALSE, exRepos |-> {}, exLangs |-> {},
              nOwned |-> 0, nContrib |-> 0, maxConn |-> MaxConnections]
    /\ sem = cfg.maxConn
    /\ obj = ObjInit
    /\ tasks = [t \in {} |-> TaskIdle]
    /\ disk = EmptyMap
    /\ clock = 1
    /\ hist = HistInit

RestStep(k) ==
    \/ RestCall(k)
    \/ RestSend(k)
    \/ RestPrimaryDone(k)
    \/ RestBody(k)
    \/ RestFallback(k)
    \/ RestWake(k)

NextRest == \E k \in DOMAIN gw : RestStep(k)

SpecRest == InitRest /\ [][NextRest]_vars

\* Bounds of the gateway model.
MaxCallers == 3    \* concurrent callers of one gateway
MaxLimit == 2      \* max_connections
MaxRounds == 2     \* rounds of query_rest a caller is followed through

\* Several callers of query and query_rest on one gateway whose semaphore was
\* constructed with any limit.
InitGate ==
    /\ gw = [k \in 1..MaxCallers |-> GwIdle]
    /\ cfg \in {[forked |-> FALSE, exRepos |-> {}, exLangs |-> {},
                 nOwned |-> 0, nContrib |-> 0, maxConn |-> n] : n \in 1..MaxLimit}
    /\ sem = cfg.maxConn
    /\ obj = ObjInit
    /\ tasks = [t \in {} |-> TaskIdle]
    /\ disk = EmptyMap
    /\ clock = 1
    /\ hist = HistInit

\* A round of query_rest, for the rounds the model follows.
GateSend(k) == gw[k].i < MaxRounds /\ RestSend(k)

GateStep(k) ==
    \/ RestCall(k)
    \/ GateSend(k)
    \/ RestPrimaryDone(k)
    \/ RestBody(k)
    \/ RestFallback(k)
    \/ RestWake(k)
    \/ QueryCall(k)
    \/ QuerySend(k)
    \/ QueryPrimaryDone(k)
    \/ QueryBody(k)
    \/ QueryFallback(k)

NextGate == \E k \in DOMAIN gw : GateStep(k)

SpecGate == InitGate /\ [][NextGate]_vars

(***************************************************************************)
(* Properties of the gateway under concurrent callers (SpecGate)           *)
(***************************************************************************)

\* The requests on the asynchronous transport that await their response.
InFlight == Cardinality({k \in DOMAIN gw : gw[k].pc \in {"primary", "qprimary"}})

\* The callers asleep inside the except branch of query_rest.
Asleep == Cardinality({k \in DOMAIN gw : gw[k].pc = "sleep2"})

\* C11: with any number of callers of query and query_rest, the requests
\* outstanding on the asynchronous transport never exceed the semaphore's
\* limit, each holds one permit, and a request on the synchronous transport
\* is only made when, with it, the outstanding requests are within the limit.
GateBound ==
    /\ [](/\ InFlight <= cfg.maxConn
          /\ sem >= 0
          /\ sem = cfg.maxConn - InFlight - Asleep)
    /\ [][\A k \in DOMAIN gw :
            gw'[k].nsec > gw[k].nsec => InFlight + 1 <= cfg.maxConn]_vars

\* C11 witness: every permit is taken by requests of both kinds while another
\* caller waits at the semaphore.
GateFull ==
    /\ sem = 0
    /\ InFlight = cfg.maxConn
    /\ \E k \in DOMAIN gw : gw[k].pc = "primary"
    /\ \E k \in DOMAIN gw : gw[k].pc = "qprimary"
    /\ \E k \in DOMAIN gw : gw[k].pc \in {"qwait", "loop", "fallback", "qfallback"}

\* C12: a query call sends its payload once on the primary transport; after
\* a failure there (while sending or decoding) it has sent nothing else until
\* it sends the same payload once on the secondary transport; it raises only
\* out of the secondary attempt and never makes a second attempt on either.
QueryFallsBackOnce ==
    \A k \in DOMAIN gw :
        LET c == gw[k] IN
        c.q # 0 =>
            /\ c.nprim <= 1 /\ c.nsec <= 1
            /\ c.nprim + c.nsec = Len(c.sent)
            /\ \A i \in DOMAIN c.sent : c.sent[i][2] = c.q
            /\ c.pc = "qfallback" => c.sent = << <<"aiohttp", c.q>> >>
            /\ c.nsec = 1 => c.sent = << <<"aiohttp", c.q>>, <<"requests", c.q>> >>
            /\ c.nsec = 1 => c.pc \in {"returned", "raised"}
            /\ c.pc = "raised" => c.nsec = 1
            /\ c.pc = "returned" => c.nprim = 1

\* C12 witness: both attempts failed and the exception left query.
QueryBothFailed ==
    \E k \in DOMAIN gw : gw[k].q # 0 /\ gw[k].pc = "raised" /\ gw[k].nsec = 1

(***************************************************************************)
(* Properties of Queries.query_rest (checked under SpecRest)               *)
(***************************************************************************)

\* C3: a query_rest call whose every request is answered with status 202
\* makes exactly 60 requests, sleeps once after each 202 and before the next
\* request, then returns dict(); it does not raise and does not start a 61st
\* round.
Retry202Terminates ==
    \A k \in DOMAIN gw :
        LET c == gw[k] IN
        c.all202 =>
            /\ c.pc # "raised"
            /\ c.nsec = 0
            /\ c.nprim = c.i
            /\ c.i <= 60
            /\ c.nsleep = (IF c.pc = "primary" THEN c.nprim - 1 ELSE c.nprim)
            /\ c.pc = "returned" =>
                    c.nprim = 60 /\ c.nsleep = 60 /\ c.result = EmptyDict

\* C3 witness: the call has returned after 202 answers only.
Retry202Exhausted ==
    \E k \in DOMAIN gw :
        gw[k].pc = "returned" /\ gw[k].all202 /\ gw[k].nprim = 60

\* C4 as stated: one call issues at most 60 requests, both transports
\* counted together.
AtMost60Requests ==
    \A k \in DOMAIN gw : gw[k].nprim + gw[k].nsec <= 60

\* C4 amended: one call runs at most 60 rounds; a round issues one request on
\* the primary transport and, only if that one fails, one on the secondary:
\* at most 60 requests per transport, at most 120 in total.
AtMost60Rounds ==
    \A k \in DOMAIN gw :
        LET c == gw[k] IN
        /\ c.i <= 60
        /\ c.nprim = c.i
        /\ c.nsec <= c.nprim
        /\ c.nprim + c.nsec <= 120

\* C4 witness: a call that issued more than 60 requests, 120 of them.
FallbackEveryRound ==
    \E k \in DOMAIN gw : gw[k].nprim = 60 /\ gw[k].nsec = 60

(***************************************************************************)
(* Properties of Stats.get_stats (checked under SpecCollect)               *)
(***************************************************************************)

\* The task's last accessor call has returned a value.
Returned(t) == tasks[t].pc = "idle" /\ tasks[t].ret # <<>>

\* C5 as stated: when paging is over and the admitted language sizes sum to
\* zero, the percentage step raises no ZeroDivisionError and every language
\* of the aggregate reports 0.
ZeroTotalReportsZero ==
    \A t \in DOMAIN tasks :
        /\ tasks[t].err # "ZeroDivisionError"
        /\ (Returned(t) /\ tasks[t].acc = "languages_proportional"
                /\ LangsTotal(obj) = 0)
            => \A l \in DOMAIN tasks[t].ret[1] : tasks[t].ret[1][l][1] = 0

\* The size of language l among node nd's edges, and whether it occurs.
EdgeSize(nd, l) ==
    LET e == Nodes[nd].edges IN
    SumOver([i \in DOMAIN e |-> IF e[i][1] = l THEN e[i][2] ELSE 0], DOMAIN e)

EdgeCount(nd, l) ==
    Cardinality({i \in DOMAIN Nodes[nd].edges : Nodes[nd].edges[i][1] = l})

\* The aggregates that counting each repository of S once, with the figures
\* of its first sighting, gives.
CountedOnce(S) ==
    /\ obj.stargazers = SumOver([r \in S |-> Nodes[hist.firstSeen[r]].stars], S)
    /\ obj.forks = SumOver([r \in S |-> Nodes[hist.firstSeen[r]].forks], S)
    /\ \A l \in Langs \ cfg.exLangs :
          LET n == SumOver([r \in S |-> EdgeCount(hist.firstSeen[r], l)], S)
              z == SumOver([r \in S |-> EdgeSize(hist.firstSeen[r], l)], S)
          IN  IF n = 0 THEN l \notin DOMAIN obj.languages
              ELSE /\ l \in DOMAIN obj.languages
                   /\ obj.languages[l].occurrences = n
                   /\ obj.languages[l].size = z
    /\ DOMAIN obj.languages \cap cfg.exLangs = {}

\* C8: whatever the pages, an identity sighted again (on the same page, on a
\* later page, in both lists) is in the repository set once, and the
\* aggregates hold each admitted repository's stargazers, forks, language
\* sizes and occurrences once, as of its first sighting.
DedupCountsOnce ==
    ~IsNone(obj, "repos") =>
        LET admitted == {r \in Repos \ cfg.exRepos : hist.firstSeen[r] # 0} IN
        /\ obj.repos = admitted
        /\ AllRepos(obj) = (hist.seenOwned \cup hist.seenContrib) \ cfg.exRepos
        /\ CountedOnce(admitted)

\* C8 witness: a pass is over in which an admitted repository was sighted
\* more than once.
DedupWitness ==
    /\ Returned(1)
    /\ \E r \in hist.dups : r \in obj.repos /\ obj.stargazers > 0

\* C9: with either setting of consider_forked_repos, a repository of
\* exclude_repos is in neither set and in no per-repository share record, and
\* the aggregates are those of the repositories of self._repos alone.
ExcludedNeverCounted ==
    ~IsNone(obj, "repos") =>
        /\ \A r \in cfg.exRepos :
              /\ r \notin obj.repos
              /\ r \notin obj.ignored_repos
              /\ r \notin DOMAIN obj.repo_language_data
        /\ \A r \in obj.repos : hist.firstSeen[r] # 0
        /\ CountedOnce(obj.repos)

\* C9 witness: a pass is over in which an excluded repository was sighted in
\* the contributed-to list (forks not considered) next to an admitted one.
ExcludedWitness ==
    /\ Returned(1)
    /\ ~cfg.forked
    /\ \E r \in cfg.exRepos : r \in hist.seenContrib /\ r \in hist.seenOwned
    /\ obj.repos # {}

(***************************************************************************)
(* Properties of the accessors (checked under Spec and SpecConc)           *)
(***************************************************************************)

\* C6 as stated: over any sequence of accessor calls on one Stats object,
\* get_stats is executed at most once.
StatsComputedOnce == hist.gsRuns <= 1

\* C7 as stated: no accessor returns a value while a get_stats pass of
\* another task is still in progress.
NoPartialRead ==
    \A t \in DOMAIN tasks : Returned(t) => ~tasks[t].retBusy

(***************************************************************************)
(* Properties of Stats.lines_changed and Stats.views (checked under Spec)  *)
(***************************************************************************)

\* The a (k = 1) or d (k = 2) of all weeks of the elements of answer res whose
\* author login is the target username.
MineTotal(res, k) ==
    LET es == ContribResults[res].entries
        mine == {i \in DOMAIN es : es[i].dict /\ es[i].author = Username}
    IN  SumOver([i \in mine |->
                    SumOver([j \in DOMAIN es[i].weeks |-> es[i].weeks[j][k]],
                            DOMAIN es[i].weeks)],
                mine)

FetchedList(r) == hist.fetched[r] # 0 /\ ContribResults[hist.fetched[r]].isList

FetchFailed(r) == hist.fetched[r] # 0 /\ ~ContribResults[hist.fetched[r]].isList

\* The returned totals are the sum of what each repository was credited.
TotalsAreCredits ==
    /\ obj.lines_changed[1] = SumOver([r \in hist.lcRepos |-> hist.credit[r][1]], hist.lcRepos)
    /\ obj.lines_changed[2] = SumOver([r \in hist.lcRepos |-> hist.credit[r][2]], hist.lcRepos)
    /\ \A t \in DOMAIN tasks : Returned(t) /\ tasks[t].acc = "lines_changed"
            => tasks[t].ret[1] = obj.lines_changed

\* C1: when lines_changed has run, every repository of all_repos whose fetch
\* gave no list and that had an entry in the loaded cache adds exactly that
\* entry's additions and deletions to the totals, and the cache written holds
\* that entry as loaded.
CacheFallback ==
    hist.lcDone =>
        /\ hist.lcRepos = AllRepos(obj)
        /\ TotalsAreCredits
        /\ \A r \in hist.lcRepos :
              (FetchFailed(r) /\ r \in DOMAIN hist.loaded) =>
                  /\ hist.credit[r] = <<hist.loaded[r].additions, hist.loaded[r].deletions>>
                  /\ r \in DOMAIN disk
                  /\ disk[r] = hist.loaded[r]

\* C1 witness: lines_changed has run, the fetch of a cached repository failed.
CacheFallbackWitness ==
    /\ hist.lcDone
    /\ \E r \in hist.lcRepos : FetchFailed(r) /\ r \in DOMAIN hist.loaded

\* C2: when lines_changed has run, every repository whose fetch gave a list
\* adds the target user's weekly a and d sums to the totals (zero without a
\* matching element), and the cache written holds these figures under a
\* timestamp of this run, whatever the loaded entry was.
CacheOverwrite ==
    hist.lcDone =>
        /\ TotalsAreCredits
        /\ \A r \in hist.lcRepos :
              FetchedList(r) =>
                  LET a == MineTotal(hist.fetched[r], 1)
                      d == MineTotal(hist.fetched[r], 2)
                  IN  /\ hist.credit[r] = <<a, d>>
                      /\ r \in DOMAIN disk
                      /\ disk[r].additions = a
                      /\ disk[r].deletions = d
                      /\ disk[r].last_updated = clock
                      /\ r \in DOMAIN hist.loaded
                            => disk[r].last_updated > hist.loaded[r].last_updated

\* C2 witness: lines_changed has run, a cached repository was fetched anew,
\* with figures other than the cached ones.
CacheOverwriteWitness ==
    /\ hist.lcDone
    /\ \E r \in hist.lcRepos :
          /\ FetchedList(r)
          /\ r \in DOMAIN hist.loaded
          /\ MineTotal(hist.fetched[r], 1) > 0
          /\ disk[r].additions # hist.loaded[r].additions

\* The non-excluded repositories sighted in the contributed-to list only,
\* forks not being considered.
ContributedOnly ==
    IF cfg.forked THEN {}
    ELSE (hist.seenContrib \ hist.seenOwned) \ cfg.exRepos

\* C10: with consider_forked_repos off, a non-excluded repository sighted in
\* the contributed-to list only is in all_repos and lines_changed fetches and
\* credits it (live figures, or the cached ones), but it is not in the owned
\* set, has no share record, the aggregates are those of the owned
\* repositories alone, and views requests no traffic for it.
ContributedOnlyAsymmetry ==
    \A r \in ContributedOnly :
        /\ ~IsNone(obj, "repos") =>
              /\ r \in AllRepos(obj)
              /\ r \notin obj.repos
              /\ r \notin DOMAIN obj.repo_language_data
              /\ CountedOnce(hist.seenOwned \ cfg.exRepos)
        /\ <<"views", r>> \notin hist.restLog
        /\ \A t \in DOMAIN tasks : tasks[t].pc = "vw" => r \notin Range(tasks[t].todo)
        /\ hist.lcDone =>
              /\ r \in hist.lcRepos
              /\ <<"contributors", r>> \in hist.restLog
              /\ TotalsAreCredits
              /\ hist.credit[r] =
                    IF FetchedList(r)
                    THEN <<MineTotal(hist.fetched[r], 1), MineTotal(hist.fetched[r], 2)>>
                    ELSE IF r \in DOMAIN hist.loaded
                    THEN <<hist.loaded[r].additions, hist.loaded[r].deletions>>
                    ELSE <<0, 0>>

\* C10 witness: lines_changed has run and credited a repository sighted in
\* the contributed-to list only, next to an owned one.
ContributedOnlyWitness ==
    /\ hist.lcDone
    /\ obj.repos # {}
    /\ \E r \in ContributedOnly : hist.credit[r][1] > 0

\* C13 as stated: total_contributions never raises out of its own handling
\* of the two answers, and what it returns is 0 or the sum of the discovered
\* years' totalContributions.
ContributionsDegradeToZero ==
    \A t \in DOMAIN tasks :
        tasks[t].acc = "total_contributions" =>
            /\ tasks[t].err # "AttributeError"
            /\ Returned(t) => tasks[t].ret[1] \in {0, SumYears(YearsAnswers[1].years)}

\* C14 as stated: views never raises on a repository's answer, whatever its
\* shape, and returns the total it memoizes.
ViewsDegradePerRepo ==
    \A t \in DOMAIN tasks :
        tasks[t].acc = "views" =>
            /\ tasks[t].err # "AttributeError"
            /\ Returned(t) => tasks[t].ret[1] = obj.views

\* The repositories of this run whose fetch gave a list.
Succeeded == {r \in hist.lcRepos : FetchedList(r)}

\* C15: when lines_changed has run, the cache written has the loaded entries
\* and those of the repositories fetched in this run; it equals the loaded
\* cache at every repository not fetched successfully (failed, or not in
\* all_repos), differs from it at every one that was, and a repository whose
\* fetch failed without a loaded entry has no entry and was credited nothing.
CacheFrame ==
    hist.lcDone =>
        /\ DOMAIN disk = DOMAIN hist.loaded \cup Succeeded
        /\ \A r \in DOMAIN hist.loaded \ Succeeded : disk[r] = hist.loaded[r]
        /\ \A r \in Succeeded \cap DOMAIN hist.loaded : disk[r] # hist.loaded[r]
        /\ \A r \in hist.lcRepos :
              (FetchFailed(r) /\ r \notin DOMAIN hist.loaded) =>
                  r \notin DOMAIN disk /\ hist.credit[r] = <<0, 0>>
        /\ TotalsAreCredits

\* C15 witness: lines_changed has run; one repository was fetched, one failed
\* with a loaded entry, one failed without, and the loaded cache had an entry
\* of a repository that is not in all_repos.
CacheFrameWitness ==
    /\ hist.lcDone
    /\ Succeeded # {}
    /\ \E r \in hist.lcRepos : FetchFailed(r) /\ r \in DOMAIN hist.loaded
    /\ \E r \in hist.lcRepos : FetchFailed(r) /\ r \notin DOMAIN hist.loaded
    /\ DOMAIN hist.loaded \ hist.lcRepos # {}

\* The sum of the additions (k = 1) or deletions (k = 2) a cache entry
\* attributes to its languages.
LangSum(e, k) == SumOver([l \in DOMAIN e.languages |-> e.languages[l][k]],
                         DOMAIN e.languages)

\* Whether the first sighting of r had language bytes that are not excluded.
HasBytes(r) ==
    /\ hist.firstSeen[r] # 0
    /\ SumSizes(KeptEdges(Nodes[hist.firstSeen[r]].edges)) > 0

\* C18: when lines_changed has run, the new entry of a fetched repository
\* with a share record attributes to each language of the record the
\* repository's additions and deletions times size / total_size, truncated
\* (the float product's integer part: the exact quotient's, or one less),
\* and the attributed sums do not exceed the repository's totals; without a
\* record everything goes to "Unknown".  A record exists exactly for an
\* admitted repository whose first sighting had non-excluded language bytes.
ProportionalAttribution ==
    hist.lcDone =>
        \A r \in Succeeded :
            LET e == disk[r]
                data == obj.repo_language_data
            IN  /\ r \in DOMAIN data <=> (r \in obj.repos /\ HasBytes(r))
                /\ IF r \in DOMAIN data
                   THEN /\ DOMAIN e.languages = DOMAIN data[r]
                        /\ \A l \in DOMAIN data[r] :
                              LET z == data[r][l][1]
                                  t == data[r][l][2]
                              IN  /\ t * e.languages[l][1] <= z * e.additions
                                  /\ t * (e.languages[l][1] + 2) > z * e.additions
                                  /\ t * e.languages[l][2] <= z * e.deletions
                                  /\ t * (e.languages[l][2] + 2) > z * e.deletions
                        /\ LangSum(e, 1) <= e.additions
                        /\ LangSum(e, 2) <= e.deletions
                   ELSE /\ DOMAIN e.languages = {"Unknown"}
                        /\ e.languages["Unknown"] = <<e.additions, e.deletions>>

\* C18 witness: lines_changed has run; truncation lost lines of one fetched
\* repository, and another one, admitted without language bytes, went to
\* "Unknown" with lines to attribute.
AttributionWitness ==
    /\ hist.lcDone
    /\ \E r \in Succeeded :
          /\ r \in DOMAIN obj.repo_language_data
          /\ Cardinality(DOMAIN disk[r].languages) = 2
          /\ LangSum(disk[r], 1) < disk[r].additions
    /\ \E r \in Succeeded :
          /\ r \in obj.repos
          /\ r \notin DOMAIN obj.repo_language_data
          /\ disk[r].additions > 0

\* C20: the cache file is as loaded for as long as a lines_changed
\* computation is in progress and after it has ended in an exception,
\* whatever had been fetched by then; it is written once, when every
\* repository of all_repos has been processed.
NoPartialCacheWrite ==
    /\ \A t \in DOMAIN tasks :
          (tasks[t].acc = "lines_changed" /\ tasks[t].pc \in {"gs", "lc", "failed"}) =>
              /\ disk = hist.loaded
              /\ ~hist.lcDone
              /\ hist.saves = 0
    /\ hist.saves <= 1
    /\ hist.saves = 1 <=> ~IsNone(obj, "lines_changed")
    /\ hist.lcDone =>
          /\ hist.saves = 1
          /\ \A r \in hist.lcRepos : hist.fetched[r] # 0

\* C20 witness: the transport failed on a repository after another one had
\* been fetched with lines to record.
FailedAfterFetch ==
    \E t \in DOMAIN tasks :
        /\ tasks[t].acc = "lines_changed"
        /\ tasks[t].pc = "failed"
        /\ tasks[t].err = "transport"
        /\ \E r \in Succeeded : hist.credit[r][1] > 0

(***************************************************************************)
(* Properties of the paging loop (checked under SpecPaging)                *)
(***************************************************************************)

\* C16 as stated: the cursors of the outstanding query are the end cursors of
\* the preceding response, and no query asks again for a page of a list that
\* an earlier query of this pass asked for.
PagesInCursorOrder ==
    /\ \A t \in DOMAIN tasks :
          (tasks[t].pc = "gs" /\ hist.answered) =>
              <<tasks[t].nextOwned, tasks[t].nextContrib>> = hist.lastEnd
    /\ ~hist.again

\* C17: the loop is left only after a response in which neither list
\* reports a next page; after a response in which one does, another query is
\* outstanding (or has failed in the transport).
ExitsWhenBothExhausted ==
    /\ hist.paging = "exited" => hist.answered /\ hist.lastMore = <<FALSE, FALSE>>
    /\ (hist.paging = "asking" /\ hist.answered) =>
            /\ hist.lastMore # <<FALSE, FALSE>>
            /\ \E t \in DOMAIN tasks :
                  tasks[t].pc = "gs" \/ tasks[t].err = "transport"
    /\ (hist.answered /\ hist.lastMore # <<FALSE, FALSE>>) => hist.paging = "asking"

\* C17 witness: the loop was left after more than one query, the owned list
\* having been exhausted before the contributed-to list.
ExitedAfterLongerContrib ==
    /\ hist.paging = "exited"
    /\ cfg.nOwned >= 1
    /\ cfg.nOwned < cfg.nContrib
    /\ cfg.nContrib \in hist.asked[2] \/ cfg.nContrib - 1 \in hist.asked[2]
    /\ Cardinality(hist.asked[2]) > 1

\* C19: under transport success the paging loop is eventually left, whatever
\* the page counts of the two lists.
PagingTerminates ==
    \A t \in {1} : (tasks[t].pc = "gs") ~> (tasks[t].pc # "gs")

\* C19 witness: the loop was left although the exhausted owned list had been
\* queried again from its first page.
ExitedAfterRestart ==
    /\ hist.paging = "exited"
    /\ hist.again
    /\ \A t \in DOMAIN tasks : tasks[t].pc # "gs" /\ tasks[t].err = ""

====
